---- MODULE Spec2Model ----
(***************************************************************************)
(* Model of wasapi_low_latency: the capture -> ring buffer -> render       *)
(* pipeline of src/src/main.rs (two threads sharing one rtrb ring buffer)  *)
(* and the activation bridge of src/src/activate_audio_async.rs.           *)
(*                                                                         *)
(* Audio bytes are modelled by their position in the captured stream: the  *)
(* k-th byte the capture hardware delivers is the number k. Sizes are      *)
(* scaled down: the ring buffer holds Capacity bytes instead of 96000.     *)
(***************************************************************************)
EXTENDS Integers, Sequences, FiniteSets, TLC

\* ---------------------------------------------------------------- bounds
\* bytes per frame (info.block, the negotiated nBlockAlign)
BlockAlign == 2
\* ring buffer capacity in bytes (48000 * 2 in the program, scaled down)
Capacity == 4
\* render hardware buffer capacity in frames (info.buf_size)
HwBufFrames == 2
\* largest capture packet the hardware delivers, in frames
MaxPacketFrames == 3
\* total number of frames the capture hardware delivers in a run
MaxFrames == 4

\* sample rate of the negotiated format ((*info.wfx).nSamplesPerSec), scaled
\* down with the ring buffer
SamplesPerSec == 500

MaxBytes == MaxFrames * BlockAlign

Min(a, b) == IF a <= b THEN a ELSE b

VARIABLES
    \* ---- pipeline (main.rs)
    procState,      \* "running" | "exited": the whole process
    mainPc,         \* where main is: "getid" (capture thread spawned,
                    \*   about to run line 148) | "join" (both threads
                    \*   spawned, parked in render_thd.join())
    input,          \* main's local input: "device" (Ok(input_id)) or
                    \*   "process" (Err(pid), the process-loopback input)
    loopOp,         \* the process-loopback activation the capture thread
                    \*   blocks on: "none" | "pending" | "completed"
    capPc,          \* position of the capture thread
    renPc,          \* position of the render thread
    buf,            \* ring buffer storage: index 0..Capacity-1 -> byte
    head,           \* rtrb head index (consumer position), in 0..2*Capacity-1
    tail,           \* rtrb tail index (producer position), in 0..2*Capacity-1
    cachedHead,     \* the producer's cached copy of head
    cachedTail,     \* the consumer's cached copy of tail
    capQueue,       \* capture hardware: queued packets, each a frame count
    capProduced,    \* frames the capture hardware has delivered so far
    capHwRead,      \* bytes of the capture stream released as read
    capEvent,       \* capture wake event (auto-reset)
    ftr,            \* capture local: frames in the packet retrieved
    rbuf,           \* capture local: the bytes of the packet retrieved
    padding,        \* render hardware: frames queued for playback
    renEvent,       \* render wake event (auto-reset)
    available,      \* render local: frames requested from the hardware
    slots,          \* render local: render.slots() as observed
    frames,         \* render local: the latency printed, in ms
    can_write,      \* render local: bytes asked of read_chunk
    data,           \* render local: slot.as_slices().0, copied to the hardware
    hwOut,          \* bytes released to the render hardware, in order
    totalWritten,   \* bytes committed to the ring buffer by capture
    totalRead,      \* bytes committed as read from the ring buffer by render
    \* ---- activation bridge (activate_audio_async.rs)
    actMode,        \* "sync" | "async": which capture_process variant runs
    actPc,          \* position of the caller inside it
    paramsAlive,    \* params and pv (locals of capture_process*) still exist
    opState,        \* platform operation: "none" | "pending" | "completed"
                    \*   | "abandoned"
    report,         \* what the platform's operation ended with: [hr, ai]
    getResultCalled,\* GetActivateResult has been called
    ev,             \* the sync variant's event is signalled (auto-reset)
    evClosed,       \* CloseHandle(ev) has been done
    slot,           \* AsyncHandler.0: "Some" | "None" | "absent"
    mutex,          \* holder of AsyncHandler.0's mutex, 0 when free
    cbPc,           \* position of each ActivateCompleted invocation
    took,           \* what each invocation's take() returned
    cbRet,          \* what each invocation returned
    futAlive,       \* the HandleFuture still exists
    futState,       \* "empty" | "value" | "error": what the future holds
    futWaker,       \* a waker is registered with the future
    wakeCount,      \* times the waiter has been woken
    completeCalls,  \* calls of CompleteHandle::complete
    dropEarly,      \* the caller's future was dropped with the operation
                    \*   submitted and no callback made yet
    ret,            \* what the activation function returned: [kind, code]
    failedCall,     \* the platform call whose failure made it return
    \* ---- stream initializer (init_ac of main.rs)
    iSource,        \* how main obtained the client init_ac is called with
    iMfx,           \* init_ac's argument mfx: <<>> for None, <<f>> for Some(f)
    iMix,           \* what ac.GetMixFormat() returned: <<>> for an error,
                    \*   <<f>> for the format f
    iPc,            \* position inside init_ac
    iAc3,           \* ac3 is Some: the cast to IAudioClient3 succeeded
    iWfx,           \* the local wfx: the negotiated format
    iMinPeriod,     \* the local min_period
    iInitCall,      \* the initialisation call made on the endpoint
    iBfs,           \* the local bfs
    iCalls,         \* the platform calls made so far, in order
    iRet,           \* what init_ac returned
    \* ---- latency diagnostic (main.rs 169-172) as a function of its inputs
    latSlots,       \* render.slots()
    latBlock,       \* info.block
    latRate,        \* (*info.wfx).nSamplesPerSec
    latFrames       \* the value printed, -1 before it is computed

pipeVars ==
    <<procState, mainPc, input, loopOp, capPc, renPc, buf, head, tail,
      cachedHead, cachedTail, capQueue, capProduced, capHwRead, capEvent, ftr,
      rbuf, padding, renEvent, available, slots, frames, can_write, data, hwOut,
      totalWritten, totalRead>>

actVars ==
    <<actMode, actPc, paramsAlive, opState, report, getResultCalled, ev,
      evClosed, slot, mutex, cbPc, took, cbRet, futAlive, futState, futWaker,
      wakeCount, completeCalls, dropEarly, ret, failedCall>>

initVars ==
    <<iSource, iMfx, iMix, iPc, iAc3, iWfx, iMinPeriod, iInitCall, iBfs,
      iCalls, iRet>>

latVars == <<latSlots, latBlock, latRate, latFrames>>

\* everything outside the pipeline, and everything outside the activation
offPipe == <<actVars, initVars, latVars>>
offAct == <<pipeVars, initVars, latVars>>

vars == <<pipeVars, actVars, initVars, latVars>>

\* ------------------------------------------------------- rtrb index maths
\* RingBuffer::collapse_position
CollapsePosition(pos) == IF pos < Capacity THEN pos ELSE pos - Capacity

\* RingBuffer::increment
Increment(pos, n) ==
    LET threshold == 2 * Capacity - n
    IN  IF pos < threshold THEN pos + n ELSE pos - threshold

\* RingBuffer::distance
Distance(a, b) == IF a <= b THEN b - a ELSE 2 * Capacity - a + b

\* bytes resident in the ring buffer
Filled == Distance(head, tail)

\* free bytes in the ring buffer
Free == Capacity - Distance(head, tail)

\* Producer::write_chunk_uninit(n): the head the producer decides with (the
\* cached one, refreshed from the shared head when the cached one does not
\* leave room)
WriteChunkHead(n) ==
    IF Capacity - Distance(cachedHead, tail) < n THEN head ELSE cachedHead

\* variant of WriteChunkOk in which the free space is not checked
WriteChunkOk_Unchecked(n) == TRUE

\* Producer::write_chunk_uninit(n) returns Ok
WriteChunkOk(n) == Capacity - Distance(WriteChunkHead(n), tail) >= n

\* Consumer::read_chunk(n): the tail the consumer decides with
ReadChunkTail(n) ==
    IF Distance(head, cachedTail) < n THEN tail ELSE cachedTail

\* Consumer::read_chunk(n) returns Ok
ReadChunkOk(n) == Distance(head, ReadChunkTail(n)) >= n

\* ReadChunk::as_slices().0: the first, contiguous part of the n bytes
\* that start at head
FirstSlice(n) ==
    LET h == CollapsePosition(head)
        first_len == Min(n, Capacity - h)
    IN  [i \in 1..first_len |-> buf[h + i - 1]]

\* the bytes of the head packet of the capture hardware queue
PacketBytes(nframes) ==
    [i \in 1..(nframes * BlockAlign) |-> capHwRead + i]

\* WriteChunkUninit::fill_from_iter: the storage after the bytes of seq have
\* been written at the tail, wrapping at the end of the storage
FillFrom(seq) ==
    LET t == CollapsePosition(tail)
    IN  [i \in 0..(Capacity - 1) |->
            LET off == (i - t + Capacity) % Capacity
            IN  IF off < Len(seq) THEN seq[off + 1] ELSE buf[i]]

\* variant of Latency: the divisions are made before the multiplication
Latency_DivideFirst(s, block, rate) == ((s \div block) \div rate) * 1000

\* slots * 1000 / info.block as usize / nSamplesPerSec as usize, in usize
\* arithmetic (unsigned, at least 32 bits wide: products up to 4294967295
\* do not wrap, and 96000 * 1000 is far below that)
Latency(s, block, rate) == ((s * 1000) \div block) \div rate

\* ------------------------------------------------------------------ Init
PipeFields ==
    /\ loopOp = "none"
    /\ capPc = "init"
    /\ renPc = "init"
    /\ buf = [i \in 0..(Capacity - 1) |-> 0]
    /\ head = 0
    /\ tail = 0
    /\ cachedHead = 0
    /\ cachedTail = 0
    /\ capQueue = <<>>
    /\ capProduced = 0
    /\ capHwRead = 0
    /\ capEvent = FALSE
    /\ ftr = 0
    /\ rbuf = <<>>
    /\ padding = 0
    /\ renEvent = FALSE
    /\ available = 0
    /\ slots = 0
    /\ frames = 0
    /\ can_write = 0
    /\ data = <<>>
    /\ hwOut = <<>>
    /\ totalWritten = 0
    /\ totalRead = 0

\* the two kinds of input main can be given (main.rs 75-85)
Inputs == {"device", "process"}

\* the process after main has spawned the capture thread
PipeInit ==
    /\ procState = "running"
    /\ mainPc = "getid"
    /\ input \in Inputs
    /\ PipeFields

\* no pipeline is running (an activation is looked at on its own)
PipeOff ==
    /\ procState = "off"
    /\ mainPc = "off"
    /\ input = "none"
    /\ PipeFields

\* number of ActivateCompleted invocations the platform may make
NumCallbacks == 2

Callbacks == 1..NumCallbacks

\* no activation is in progress (the pipeline runs on its own)
ActOff ==
    /\ actMode = "none"
    /\ actPc = "off"
    /\ paramsAlive = FALSE
    /\ opState = "none"
    /\ report = [hr |-> 0, ai |-> "None"]
    /\ getResultCalled = FALSE
    /\ ev = FALSE
    /\ evClosed = FALSE
    /\ slot = "absent"
    /\ mutex = 0
    /\ cbPc = [t \in Callbacks |-> "idle"]
    /\ took = [t \in Callbacks |-> "nothing"]
    /\ cbRet = [t \in Callbacks |-> "none"]
    /\ futAlive = FALSE
    /\ futState = "empty"
    /\ futWaker = FALSE
    /\ wakeCount = 0
    /\ completeCalls = 0
    /\ dropEarly = FALSE
    /\ ret = [kind |-> "none", code |-> 0]
    /\ failedCall = "none"

\* the local wfx before it is assigned
NullFormat ==
    [wFormatTag |-> 0, nChannels |-> 0, nSamplesPerSec |-> 0,
     nAvgBytesPerSec |-> 0, nBlockAlign |-> 0, wBitsPerSample |-> 0,
     cbSize |-> 0]

\* init_ac is not being looked at
InitOff ==
    /\ iSource = "none"
    /\ iMfx = <<>>
    /\ iMix = <<>>
    /\ iPc = "off"
    /\ iAc3 = FALSE
    /\ iWfx = NullFormat
    /\ iMinPeriod = 0
    /\ iInitCall = [api |-> "none"]
    /\ iBfs = 0
    /\ iCalls = <<>>
    /\ iRet = [kind |-> "none"]

\* the latency diagnostic is not being looked at on its own
LatOff ==
    /\ latSlots = 0
    /\ latBlock = 1
    /\ latRate = 1
    /\ latFrames = -1

mainState == <<procState, mainPc>>
capSetup == <<input, loopOp>>
capLocals == <<ftr, rbuf>>
renLocals == <<available, slots, frames, can_write, data>>
ring == <<buf, head, tail, cachedHead, cachedTail, totalWritten, totalRead>>
capHw == <<capQueue, capProduced, capHwRead, capEvent>>
renHw == <<padding, renEvent, hwOut>>

\* a hardware call of the capture thread fails: `?` returns the error and
\* spawn's f().unwrap() panics the thread
CaptureFails ==
    /\ capPc' = "panicked"
    /\ UNCHANGED <<offPipe, capSetup, mainState, renPc, ring, capHw, capLocals,
                   renHw, renLocals>>

\* a hardware call of the render thread fails
RenderFails ==
    /\ renPc' = "panicked"
    /\ UNCHANGED <<offPipe, capSetup, mainState, capPc, ring, capHw, capLocals,
                   renHw, renLocals>>

\* -------------------------------------------------------- capture thread
\* the set-up of the capture thread with a device input: CoCreateInstance,
\* GetDevice, Activate, cast, init_ac and GetService
CaptureInit ==
    /\ procState = "running"
    /\ input = "device"
    /\ capPc = "init"
    /\ \/ /\ capPc' = "wait"
          /\ UNCHANGED <<offPipe, capSetup, mainState, renPc, ring, capHw,
                         capLocals, renHw, renLocals>>
       \/ CaptureFails

\* the set-up with the process-loopback input, up to the point where it
\* blocks: Runtime::new().unwrap(), rt.block_on(process_loopback(pid)),
\* which submits the activation (ActivateAudioInterfaceAsync) and parks the
\* thread on the future; a refused submission panics the thread at
\* process_loopback's unwrap
CaptureActivate ==
    /\ procState = "running"
    /\ input = "process"
    /\ capPc = "init"
    /\ \/ /\ loopOp' = "pending"
          /\ capPc' = "activating"
          /\ UNCHANGED <<offPipe, input, mainState, renPc, ring, capHw,
                         capLocals, renHw, renLocals>>
       \/ CaptureFails

\* block_on returns once the completion callback has resolved the future:
\* GetActivateResult and the outcome (an error panics the thread), then
\* init_ac and GetService
CaptureActivated ==
    /\ procState = "running"
    /\ capPc = "activating"
    /\ loopOp = "completed"
    /\ \/ /\ capPc' = "wait"
          /\ UNCHANGED <<offPipe, capSetup, mainState, renPc, ring, capHw,
                         capLocals, renHw, renLocals>>
       \/ CaptureFails

\* WaitForSingleObject(info.ev, INFINITE)
CaptureWait ==
    /\ procState = "running"
    /\ capPc = "wait"
    /\ capEvent
    /\ capEvent' = FALSE
    /\ capPc' = "getbuf"
    /\ UNCHANGED <<offPipe, capSetup, mainState, renPc, ring, capQueue,
                   capProduced, capHwRead, capLocals, renHw, renLocals>>

\* cac.GetBuffer: the head packet, or a null pointer when none is queued
\* (the null pointer is looked at by the test of line 123, the next step)
CaptureGetBuffer ==
    /\ procState = "running"
    /\ capPc = "getbuf"
    /\ \/ /\ capQueue # <<>>
          /\ ftr' = Head(capQueue)
          /\ rbuf' = PacketBytes(Head(capQueue))
          /\ capPc' = "reserve"
          /\ UNCHANGED <<offPipe, capSetup, mainState, renPc, ring, capHw,
                         renHw, renLocals>>
       \/ /\ capQueue = <<>>
          /\ ftr' = 0
          /\ rbuf' = <<>>
          /\ capPc' = "isnull"
          /\ UNCHANGED <<offPipe, capSetup, mainState, renPc, ring, capHw,
                         renHw, renLocals>>
       \/ CaptureFails

\* if cbuf.is_null() { continue; }: the inner loop starts over at GetBuffer
CaptureNullContinue ==
    /\ procState = "running"
    /\ capPc = "isnull"
    /\ capPc' = "getbuf"
    /\ UNCHANGED <<offPipe, capSetup, mainState, renPc, ring, capHw, capLocals,
                   renHw, renLocals>>

\* capture.write_chunk_uninit(rbuf.len())
CaptureWriteChunk ==
    /\ procState = "running"
    /\ capPc = "reserve"
    /\ cachedHead' = WriteChunkHead(Len(rbuf))
    /\ capPc' = IF WriteChunkOk(Len(rbuf)) THEN "fill" ELSE "release0"
    /\ UNCHANGED <<offPipe, capSetup, mainState, renPc, buf, head, tail,
                   cachedTail, totalWritten, totalRead, capHw, capLocals,
                   renHw, renLocals>>

\* slot.fill_from_iter(rbuf.iter().copied()): copy and commit the write
CaptureFill ==
    /\ procState = "running"
    /\ capPc = "fill"
    /\ buf' = FillFrom(rbuf)
    /\ tail' = Increment(tail, Len(rbuf))
    /\ totalWritten' = totalWritten + Len(rbuf)
    /\ capPc' = "release"
    /\ UNCHANGED <<offPipe, capSetup, mainState, renPc, head, cachedHead,
                   cachedTail, totalRead, capHw, capLocals, renHw, renLocals>>

\* cac.ReleaseBuffer(ftr): the packet is consumed
CaptureRelease ==
    /\ procState = "running"
    /\ capPc = "release"
    /\ \/ /\ capQueue' = Tail(capQueue)
          /\ capHwRead' = capHwRead + ftr * BlockAlign
          /\ capPc' = "nextpkt"
          /\ UNCHANGED <<offPipe, capSetup, mainState, renPc, ring, capProduced,
                         capEvent, capLocals, renHw, renLocals>>
       \/ CaptureFails

\* cac.ReleaseBuffer(0) on TooFewSlots, then `continue`: nothing is consumed,
\* so the hardware hands out the same packet at the next GetBuffer
CaptureReleaseZero ==
    /\ procState = "running"
    /\ capPc = "release0"
    /\ \/ /\ capPc' = "getbuf"
          /\ UNCHANGED <<offPipe, capSetup, mainState, renPc, ring, capHw,
                         capLocals, renHw, renLocals>>
       \/ CaptureFails

\* cac.GetNextPacketSize
CaptureNextPacketSize ==
    /\ procState = "running"
    /\ capPc = "nextpkt"
    /\ \/ /\ capPc' = IF capQueue = <<>> THEN "wait" ELSE "getbuf"
          /\ UNCHANGED <<offPipe, capSetup, mainState, renPc, ring, capHw,
                         capLocals, renHw, renLocals>>
       \/ CaptureFails

CaptureNext ==
    \/ CaptureInit
    \/ CaptureActivate
    \/ CaptureActivated
    \/ CaptureWait
    \/ CaptureGetBuffer
    \/ CaptureNullContinue
    \/ CaptureWriteChunk
    \/ CaptureFill
    \/ CaptureRelease
    \/ CaptureReleaseZero
    \/ CaptureNextPacketSize

\* --------------------------------------------------------- render thread
\* CoCreateInstance, GetDevice, Activate, init_ac and GetService of the
\* render thread
RenderInit ==
    /\ procState = "running"
    /\ mainPc = "join"
    /\ renPc = "init"
    /\ \/ /\ renPc' = "wait"
          /\ UNCHANGED <<offPipe, capSetup, mainState, capPc, ring, capHw,
                         capLocals, renHw, renLocals>>
       \/ RenderFails

\* WaitForSingleObject(info.ev, INFINITE)
RenderWait ==
    /\ procState = "running"
    /\ renPc = "wait"
    /\ renEvent
    /\ renEvent' = FALSE
    /\ renPc' = "padding"
    /\ UNCHANGED <<offPipe, capSetup, mainState, capPc, ring, capHw, capLocals,
                   padding, hwOut, renLocals>>

\* variant of RenderGetCurrentPadding without the test of available == 0
RenderGetCurrentPadding_NoZeroCheck ==
    /\ procState = "running"
    /\ renPc = "padding"
    /\ available' = HwBufFrames - padding
    /\ renPc' = "getbuf"
    /\ UNCHANGED <<offPipe, capSetup, mainState, capPc, ring, capHw, capLocals,
                   renHw, slots, frames, can_write, data>>

\* ac.GetCurrentPadding; available = info.buf_size - padding;
\* available == 0 goes back to the wait
RenderGetCurrentPadding ==
    /\ procState = "running"
    /\ renPc = "padding"
    /\ \/ /\ available' = HwBufFrames - padding
          /\ renPc' = IF HwBufFrames - padding = 0 THEN "wait" ELSE "getbuf"
          /\ UNCHANGED <<offPipe, capSetup, mainState, capPc, ring, capHw,
                         capLocals, renHw, slots, frames, can_write, data>>
       \/ RenderFails

\* cac.GetBuffer(available)
RenderGetBuffer ==
    /\ procState = "running"
    /\ renPc = "getbuf"
    /\ \/ /\ renPc' = "slots"
          /\ UNCHANGED <<offPipe, capSetup, mainState, capPc, ring, capHw,
                         capLocals, renHw, renLocals>>
       \/ RenderFails

\* variant of RenderSlots: the whole requested region is asked of read_chunk
RenderSlots_WholeRegion ==
    /\ procState = "running"
    /\ renPc = "slots"
    /\ cachedTail' = tail
    /\ slots' = Distance(head, tail)
    /\ frames' = Latency(Distance(head, tail), BlockAlign, SamplesPerSec)
    /\ can_write' = available * BlockAlign
    /\ renPc' = "read"
    /\ UNCHANGED <<offPipe, capSetup, mainState, capPc, buf, head, tail,
                   cachedHead, totalWritten, totalRead, capHw, capLocals,
                   renHw, available, data>>

\* render.slots(); the latency diagnostic; can_write = rbuf.len().min(slots)
RenderSlots ==
    /\ procState = "running"
    /\ renPc = "slots"
    /\ cachedTail' = tail
    /\ slots' = Distance(head, tail)
    /\ frames' = Latency(Distance(head, tail), BlockAlign, SamplesPerSec)
    /\ can_write' = Min(available * BlockAlign, Distance(head, tail))
    /\ renPc' = "read"
    /\ UNCHANGED <<offPipe, capSetup, mainState, capPc, buf, head, tail,
                   cachedHead, totalWritten, totalRead, capHw, capLocals,
                   renHw, available, data>>

\* render.read_chunk(can_write)?; data = slot.as_slices().0;
\* rbuf[..data.len()].copy_from_slice(data)
RenderReadChunk ==
    /\ procState = "running"
    /\ renPc = "read"
    /\ \/ /\ ReadChunkOk(can_write)
          /\ cachedTail' = ReadChunkTail(can_write)
          /\ data' = FirstSlice(can_write)
          /\ renPc' = "release"
          /\ UNCHANGED <<offPipe, capSetup, mainState, capPc, buf, head, tail,
                         cachedHead, totalWritten, totalRead, capHw,
                         capLocals, renHw, available, slots, frames,
                         can_write>>
       \/ /\ ~ReadChunkOk(can_write)
          /\ RenderFails

\* the first whole frames of the bytes copied: what ReleaseBuffer hands over
ReleasedBytes(copied) ==
    SubSeq(copied, 1, (Len(copied) \div BlockAlign) * BlockAlign)

\* variant of ReleaseFrames: the whole requested region is released
ReleaseFrames_WholeRegion == available

\* data.len() as u32 / info.block: the argument of ReleaseBuffer
ReleaseFrames == Len(data) \div BlockAlign

\* cac.ReleaseBuffer(data.len() as u32 / info.block, 0)
RenderRelease ==
    /\ procState = "running"
    /\ renPc = "release"
    /\ \/ /\ padding' = padding + ReleaseFrames
          /\ hwOut' = hwOut \o ReleasedBytes(data)
          /\ renPc' = "commit"
          /\ UNCHANGED <<offPipe, capSetup, mainState, capPc, ring, capHw,
                         capLocals, renEvent, renLocals>>
       \/ RenderFails

\* slot.commit_all(): all can_write bytes of the chunk are consumed
RenderCommitAll ==
    /\ procState = "running"
    /\ renPc = "commit"
    /\ head' = Increment(head, can_write)
    /\ totalRead' = totalRead + can_write
    /\ renPc' = "padding"
    /\ UNCHANGED <<offPipe, capSetup, mainState, capPc, buf, tail, cachedHead,
                   cachedTail, totalWritten, capHw, capLocals, renHw,
                   renLocals>>

RenderNext ==
    \/ RenderInit
    \/ RenderWait
    \/ RenderGetCurrentPadding
    \/ RenderGetBuffer
    \/ RenderSlots
    \/ RenderReadChunk
    \/ RenderRelease
    \/ RenderCommitAll

\* ------------------------------------------------------------ main thread
\* main between the two spawns, with the capture thread already running:
\* output.GetId()?.to_string()? and spawn("render", ...). A failure of
\* GetId or to_string makes main return Err, a failure to create the thread
\* panics main at spawn's unwrap: either way the process ends, before the
\* render thread exists and wherever the capture thread is
MainSpawnRender ==
    /\ procState = "running"
    /\ mainPc = "getid"
    /\ \/ mainPc' = "join" /\ UNCHANGED procState
       \/ procState' = "exited" /\ UNCHANGED mainPc
    /\ UNCHANGED <<offPipe, capSetup, capPc, renPc, ring, capHw, capLocals,
                   renHw, renLocals>>

\* dbg!(render_thd.join()).unwrap(): main is parked on the render thread
\* first; when that thread has panicked the unwrap panics main and the
\* process ends. The join of the capture thread comes after it.
MainJoin ==
    /\ procState = "running"
    /\ mainPc = "join"
    /\ renPc = "panicked"
    /\ procState' = "exited"
    /\ UNCHANGED <<offPipe, mainPc, capSetup, capPc, renPc, ring, capHw,
                   capLocals, renHw, renLocals>>

\* --------------------------------------------------------------- hardware
\* the capture endpoint queues one more packet and signals the event; the
\* stream runs from init_ac's Start until the thread's panic drops the client
HwCapturePacket ==
    /\ procState = "running"
    /\ capPc \notin {"init", "activating", "panicked"}
    /\ \E f \in 1..MaxPacketFrames :
          /\ capProduced + f <= MaxFrames
          /\ capQueue' = Append(capQueue, f)
          /\ capProduced' = capProduced + f
    /\ capEvent' = TRUE
    /\ UNCHANGED <<offPipe, capSetup, mainState, capPc, renPc, ring, capHwRead,
                   capLocals, renHw, renLocals>>

\* the render endpoint plays some queued frames and signals the event
HwRenderPeriod ==
    /\ procState = "running"
    /\ renPc \notin {"init", "panicked"}
    /\ \E k \in 0..padding : padding' = padding - k
    /\ renEvent' = TRUE
    /\ UNCHANGED <<offPipe, capSetup, mainState, capPc, renPc, ring, capHw,
                   capLocals, hwOut, renLocals>>

\* the platform calls ActivateCompleted, on a thread of its own: the handler
\* completes the future the capture thread is parked on. Nothing obliges the
\* platform to do so
HwActivationCompletes ==
    /\ procState = "running"
    /\ loopOp = "pending"
    /\ loopOp' = "completed"
    /\ UNCHANGED <<offPipe, input, mainState, capPc, renPc, ring, capHw,
                   capLocals, renHw, renLocals>>

HwNext == HwCapturePacket \/ HwRenderPeriod \/ HwActivationCompletes

MainNext == MainSpawnRender \/ MainJoin

PipeNext == CaptureNext \/ RenderNext \/ MainNext \/ HwNext

Init == PipeInit /\ ActOff /\ InitOff /\ LatOff

Next == PipeNext

Spec == Init /\ [][Next]_vars

\* the threads are scheduled fairly; the hardware owes nothing
FairSpec ==
    /\ Init
    /\ [][Next]_vars
    /\ WF_vars(CaptureNext)
    /\ WF_vars(RenderNext)
    /\ WF_vars(MainNext)

\* ======================================================= activation bridge
\* HRESULTs: 0 is S_OK, the negative ones are failures
FailureCodes == {-2, -1}

\* HRESULT::is_ok
Succeeded(hr) == hr >= 0

\* what the platform's operation can end with: GetActivateResult's two out
\* parameters, a status and an optional interface. The code reads them
\* independently of each other, so every pairing is a possible report
PlatformReports ==
    {[hr |-> h, ai |-> a] : h \in {0} \cup FailureCodes, a \in {"Some", "None"}}

\* the results of comi.cast(): 0 for success, or the failure of the query
CastResults == {0} \cup FailureCodes

retVars == <<ret, failedCall>>
actPlatform == <<opState, report, getResultCalled>>
actSync == <<ev, evClosed>>
actHandler == <<slot, mutex, cbPc, took, cbRet>>
actFuture == <<futAlive, futState, futWaker, wakeCount, completeCalls>>

ActInit ==
    /\ actMode \in {"sync", "async"}
    /\ actPc = "start"
    /\ paramsAlive = FALSE
    /\ opState = "none"
    /\ report = [hr |-> 0, ai |-> "None"]
    /\ getResultCalled = FALSE
    /\ ev = FALSE
    /\ evClosed = FALSE
    /\ slot = "absent"
    /\ mutex = 0
    /\ cbPc = [t \in Callbacks |-> "idle"]
    /\ took = [t \in Callbacks |-> "nothing"]
    /\ cbRet = [t \in Callbacks |-> "none"]
    /\ futAlive = FALSE
    /\ futState = "empty"
    /\ futWaker = FALSE
    /\ wakeCount = 0
    /\ completeCalls = 0
    /\ dropEarly = FALSE
    /\ ret = [kind |-> "none", code |-> 0]
    /\ failedCall = "none"

\* if let Some(comi) = ai { Ok(comi.cast()?) } else { Err(Error::from(hr)) }
ActivateOutcome(hr, ai, cast) ==
    IF ai = "Some"
    THEN IF cast = 0
         THEN [kind |-> "Ok", code |-> 0]
         ELSE [kind |-> "Error", code |-> cast]
    ELSE [kind |-> "Error", code |-> hr]

\* whether comi.cast()? is what returned the error
CastFailed(ai, cast) == IF ai = "Some" /\ cast # 0 THEN "cast" ELSE "none"

\* impl From<windows::core::Error> for ActivationError
WindowError(r) ==
    IF r.kind = "Error" THEN [kind |-> "WindowError", code |-> r.code] ELSE r

\* impl From<HandleError> for ActivationError
HandleErrorOf == [kind |-> "HandleError", code |-> 0]

\* the activation function and capture_process* around it return r, call
\* being the platform call that failed, if one did: the locals params and pv
\* go away (pv forgotten on Ok, dropped on Err)
Returns(r, call) ==
    /\ ret' = r
    /\ failedCall' = call
    /\ actPc' = "returned"
    /\ paramsAlive' = FALSE

\* ---- capture_process_sync / activate_audio_interface_sync
\* params and pv are set up; CreateEventW(None, false, false, None)?
SyncCreateEvent ==
    /\ actMode = "sync"
    /\ actPc = "start"
    /\ \/ /\ actPc' = "submit"
          /\ paramsAlive' = TRUE
          /\ UNCHANGED retVars
       \/ \E c \in FailureCodes :
             Returns([kind |-> "Error", code |-> c], "CreateEventW")
    /\ UNCHANGED <<offAct, actMode, actPlatform, actSync, actHandler,
                   actFuture, dropEarly>>

\* ActivateAudioInterfaceAsync(..., &completionhandler)?
SyncSubmit ==
    /\ actMode = "sync"
    /\ actPc = "submit"
    /\ \/ /\ opState' = "pending"
          /\ actPc' = "wait"
          /\ UNCHANGED <<retVars, paramsAlive>>
       \/ /\ \E c \in FailureCodes :
                Returns([kind |-> "Error", code |-> c],
                        "ActivateAudioInterfaceAsync")
          /\ UNCHANGED opState
    /\ UNCHANGED <<offAct, actMode, report, getResultCalled, actSync,
                   actHandler, actFuture, dropEarly>>

\* WaitForSingleObject(ev, INFINITE)
SyncWait ==
    /\ actMode = "sync"
    /\ actPc = "wait"
    /\ ev
    /\ ev' = FALSE
    /\ actPc' = "getresult"
    /\ UNCHANGED <<offAct, actMode, paramsAlive, actPlatform, evClosed,
                   actHandler, actFuture, dropEarly, retVars>>

\* result.GetActivateResult(&mut hr, &mut ai)?
SyncGetResult ==
    /\ actMode = "sync"
    /\ actPc = "getresult"
    /\ getResultCalled' = TRUE
    /\ \/ /\ actPc' = "close"
          /\ UNCHANGED <<retVars, paramsAlive>>
       \/ \E c \in FailureCodes :
             Returns([kind |-> "Error", code |-> c], "GetActivateResult")
    /\ UNCHANGED <<offAct, actMode, opState, report, actSync, actHandler,
                   actFuture, dropEarly>>

\* CloseHandle(ev)?
SyncCloseHandle ==
    /\ actMode = "sync"
    /\ actPc = "close"
    /\ \/ /\ evClosed' = TRUE
          /\ actPc' = "finish"
          /\ UNCHANGED <<retVars, paramsAlive>>
       \/ /\ \E c \in FailureCodes :
                Returns([kind |-> "Error", code |-> c], "CloseHandle")
          /\ UNCHANGED evClosed
    /\ UNCHANGED <<offAct, actMode, actPlatform, ev, actHandler, actFuture,
                   dropEarly>>

\* the outcome of the sync variant, lines 110-115
SyncFinish ==
    /\ actMode = "sync"
    /\ actPc = "finish"
    /\ \E cast \in CastResults :
          Returns(ActivateOutcome(report.hr, report.ai, cast),
                  CastFailed(report.ai, cast))
    /\ UNCHANGED <<offAct, actMode, actPlatform, actSync, actHandler,
                   actFuture, dropEarly>>

SyncNext ==
    \/ SyncCreateEvent
    \/ SyncSubmit
    \/ SyncWait
    \/ SyncGetResult
    \/ SyncCloseHandle
    \/ SyncFinish

\* ---- capture_process / activate_audio_interface_async
\* first poll: params and pv are set up, sync::create(), the handler takes
\* the handle, ActivateAudioInterfaceAsync(...)?
AsyncSubmit ==
    /\ actMode = "async"
    /\ actPc = "start"
    /\ \/ /\ opState' = "pending"
          /\ paramsAlive' = TRUE
          /\ futAlive' = TRUE
          /\ slot' = "Some"
          /\ actPc' = "await"
          /\ UNCHANGED retVars
       \/ /\ \E c \in FailureCodes :
                Returns([kind |-> "WindowError", code |-> c],
                        "ActivateAudioInterfaceAsync")
          /\ UNCHANGED <<opState, futAlive, slot>>
    /\ UNCHANGED <<offAct, actMode, report, getResultCalled, actSync, mutex,
                   cbPc, took, cbRet, futState, futWaker, wakeCount,
                   completeCalls, dropEarly>>

\* future.await?: a poll of the HandleFuture; the await consumes the future,
\* which is dropped as soon as it has yielded
AsyncPoll ==
    /\ actMode = "async"
    /\ actPc = "await"
    /\ \/ /\ futState = "value"
          /\ actPc' = "getresult"
          /\ futAlive' = FALSE
          /\ UNCHANGED <<retVars, paramsAlive, futWaker>>
       \/ /\ futState = "error"
          /\ Returns(HandleErrorOf, "none")
          /\ futAlive' = FALSE
          /\ UNCHANGED futWaker
       \/ /\ futState = "empty"
          /\ futWaker' = TRUE
          /\ actPc' = "suspended"
          /\ UNCHANGED <<retVars, paramsAlive, futAlive>>
    /\ UNCHANGED <<offAct, actMode, actPlatform, actSync, actHandler,
                   futState, wakeCount, completeCalls, dropEarly>>

\* the executor polls the task again once its waker has been woken
AsyncResume ==
    /\ actMode = "async"
    /\ actPc = "suspended"
    /\ ~futWaker
    /\ actPc' = "await"
    /\ UNCHANGED <<offAct, actMode, paramsAlive, actPlatform, actSync,
                   actHandler, actFuture, dropEarly, retVars>>

\* result.GetActivateResult(&mut hr, &mut ai)? and the outcome, lines 152-162
AsyncGetResult ==
    /\ actMode = "async"
    /\ actPc = "getresult"
    /\ getResultCalled' = TRUE
    /\ \/ \E c \in FailureCodes :
             Returns([kind |-> "WindowError", code |-> c], "GetActivateResult")
       \/ \E cast \in CastResults :
             Returns(WindowError(ActivateOutcome(report.hr, report.ai, cast)),
                     CastFailed(report.ai, cast))
    /\ UNCHANGED <<offAct, actMode, opState, report, actSync, actHandler,
                   actFuture, dropEarly>>

\* a CompleteHandle is dropped without having been completed (s is the slot
\* it was in): a future still waiting for it resolves to HandleError and its
\* waiter is woken; with the future gone nothing happens
HandleDropped(s) ==
    IF s = "Some" /\ futAlive /\ futState = "empty"
    THEN /\ futState' = "error"
         /\ futWaker' = FALSE
         /\ wakeCount' = IF futWaker THEN wakeCount + 1 ELSE wakeCount
    ELSE UNCHANGED <<futState, futWaker, wakeCount>>

\* the activation function holds its own reference to the handler object,
\* in the local completionhandler, from the submission to its return
HandlerHeldByCaller == actPc \in {"await", "suspended", "getresult"}

\* the caller abandons the future of capture_process between two polls: the
\* locals held across the await (params, pv, future, completionhandler,
\* result) are dropped. When the platform has already released its
\* reference to the handler, completionhandler was the last one: the
\* handler is destroyed and the CompleteHandle in it is dropped uncompleted
AsyncDrop ==
    /\ actMode = "async"
    /\ actPc \in {"start", "suspended"}
    /\ actPc' = "dropped"
    /\ paramsAlive' = FALSE
    /\ futAlive' = FALSE
    /\ slot' = IF opState = "abandoned" THEN "absent" ELSE slot
    /\ dropEarly' = /\ opState \in {"pending", "completed"}
                    /\ \A t \in Callbacks : cbPc[t] = "idle"
    /\ UNCHANGED <<offAct, actMode, actPlatform, actSync, mutex, cbPc, took,
                   cbRet, futState, futWaker, wakeCount, completeCalls,
                   retVars>>

AsyncNext ==
    \/ AsyncSubmit
    \/ AsyncPoll
    \/ AsyncResume
    \/ AsyncGetResult
    \/ AsyncDrop

\* ---- the platform
\* the pending operation ends and the platform is about to call back
PlatformCompletes ==
    /\ opState = "pending"
    /\ opState' = "completed"
    /\ report' \in PlatformReports
    /\ UNCHANGED <<offAct, actMode, actPc, paramsAlive, getResultCalled,
                   actSync, actHandler, actFuture, dropEarly, retVars>>

\* the platform releases its reference to the handler without ever calling
\* it. While the activation function is alive the handler object survives
\* this, through the function's own reference: the CompleteHandle stays in
\* the slot, neither completed nor dropped, and the event stays
\* unsignalled. When the caller has already dropped its future, the
\* platform's reference was the last one: the handler is destroyed and the
\* CompleteHandle in it is dropped uncompleted, with no future left to hear
\* of it
PlatformAbandons ==
    /\ opState = "pending"
    /\ opState' = "abandoned"
    /\ IF actMode = "async" /\ ~HandlerHeldByCaller
       THEN slot' = "absent" /\ HandleDropped(slot)
       ELSE UNCHANGED <<slot, futState, futWaker, wakeCount>>
    /\ UNCHANGED <<offAct, actMode, actPc, paramsAlive, report,
                   getResultCalled, actSync, mutex, cbPc, took, cbRet,
                   futAlive, completeCalls, dropEarly, retVars>>

\* ---- SyncHandler::ActivateCompleted: unsafe { SetEvent(self.0) }
CbSetEvent(t) ==
    /\ actMode = "sync"
    /\ opState = "completed"
    /\ cbPc[t] = "idle"
    /\ cbPc' = [cbPc EXCEPT ![t] = "done"]
    /\ IF evClosed
       THEN cbRet' = [cbRet EXCEPT ![t] = "Err"] /\ UNCHANGED ev
       ELSE cbRet' = [cbRet EXCEPT ![t] = "Ok"] /\ ev' = TRUE
    /\ UNCHANGED <<offAct, actMode, actPc, paramsAlive, actPlatform,
                   evClosed, slot, mutex, took, actFuture, dropEarly,
                   retVars>>

\* ---- AsyncHandler::ActivateCompleted
\* the platform calls the handler
CbEnter(t) ==
    /\ actMode = "async"
    /\ opState = "completed"
    /\ cbPc[t] = "idle"
    /\ cbPc' = [cbPc EXCEPT ![t] = "lock"]
    /\ UNCHANGED <<offAct, actMode, actPc, paramsAlive, actPlatform,
                   actSync, slot, mutex, took, cbRet, actFuture, dropEarly,
                   retVars>>

\* self.0.lock().unwrap(): blocks while another invocation holds the mutex
CbLock(t) ==
    /\ cbPc[t] = "lock"
    /\ mutex = 0
    /\ mutex' = t
    /\ cbPc' = [cbPc EXCEPT ![t] = "locked"]
    /\ UNCHANGED <<offAct, actMode, actPc, paramsAlive, actPlatform,
                   actSync, slot, took, cbRet, actFuture, dropEarly, retVars>>

\* variant of CbTake: the guard outlives the statement and is never released
CbTake_KeepsGuard(t) ==
    /\ cbPc[t] = "locked"
    /\ took' = [took EXCEPT ![t] = slot]
    /\ slot' = "None"
    /\ cbPc' = [cbPc EXCEPT ![t] = "complete"]
    /\ UNCHANGED <<offAct, actMode, actPc, paramsAlive, actPlatform,
                   actSync, mutex, cbRet, actFuture, dropEarly, retVars>>

\* variant of CbTake: the slot is read without being emptied
CbTake_LeavesHandle(t) ==
    /\ cbPc[t] = "locked"
    /\ took' = [took EXCEPT ![t] = slot]
    /\ mutex' = 0
    /\ cbPc' = [cbPc EXCEPT ![t] = "complete"]
    /\ UNCHANGED <<offAct, actMode, actPc, paramsAlive, actPlatform,
                   actSync, slot, cbRet, actFuture, dropEarly, retVars>>

\* let val = <guard>.take(); the guard is dropped at the end of the statement
CbTake(t) ==
    /\ cbPc[t] = "locked"
    /\ took' = [took EXCEPT ![t] = slot]
    /\ slot' = "None"
    /\ mutex' = 0
    /\ cbPc' = [cbPc EXCEPT ![t] = "complete"]
    /\ UNCHANGED <<offAct, actMode, actPc, paramsAlive, actPlatform,
                   actSync, cbRet, actFuture, dropEarly, retVars>>

\* CompleteHandle::complete(()): the value goes to the future and its waiter
\* is woken; with the future gone the value is discarded
HandleComplete ==
    /\ completeCalls' = completeCalls + 1
    /\ IF futAlive /\ futState = "empty"
       THEN /\ futState' = "value"
            /\ futWaker' = FALSE
            /\ wakeCount' = IF futWaker THEN wakeCount + 1 ELSE wakeCount
       ELSE UNCHANGED <<futState, futWaker, wakeCount>>

\* variant of CbComplete: the handle taken out of the slot is not completed
CbComplete_NoComplete(t) ==
    /\ cbPc[t] = "complete"
    /\ cbRet' = [cbRet EXCEPT ![t] = "Ok"]
    /\ cbPc' = [cbPc EXCEPT ![t] = "done"]
    /\ UNCHANGED <<offAct, actMode, actPc, paramsAlive, actPlatform,
                   actSync, slot, mutex, took, actFuture, dropEarly, retVars>>

\* if let Some(handle) = val { handle.complete(()); } Ok(())
CbComplete(t) ==
    /\ cbPc[t] = "complete"
    /\ IF took[t] = "Some"
       THEN HandleComplete
       ELSE UNCHANGED <<completeCalls, futState, futWaker, wakeCount>>
    /\ cbRet' = [cbRet EXCEPT ![t] = "Ok"]
    /\ cbPc' = [cbPc EXCEPT ![t] = "done"]
    /\ UNCHANGED <<offAct, actMode, actPc, paramsAlive, actPlatform,
                   actSync, slot, mutex, took, futAlive, dropEarly, retVars>>

\* the steps of one ActivateCompleted invocation
CbStep(t) ==
    \/ CbSetEvent(t)
    \/ CbEnter(t)
    \/ CbLock(t)
    \/ CbTake(t)
    \/ CbComplete(t)

CbNext == \E t \in Callbacks : CbStep(t)

ActNext ==
    \/ SyncNext
    \/ AsyncNext
    \/ PlatformCompletes
    \/ PlatformAbandons
    \/ CbNext

\* the start of one activation, sync or async, looked at on its own
ActStart == ActInit /\ PipeOff /\ InitOff /\ LatOff

ActSpec == ActStart /\ [][ActNext]_vars

\* the platform's callback threads are scheduled fairly
FairActSpec ==
    /\ ActStart
    /\ [][ActNext]_vars
    /\ \A t \in Callbacks : WF_vars(CbStep(t))

\* the callback threads and the caller (its thread in the sync variant, the
\* executor polling its task in the async variant) are scheduled fairly;
\* the caller stays free to drop its future
FairCallerSpec ==
    /\ ActStart
    /\ [][ActNext]_vars
    /\ \A t \in Callbacks : WF_vars(CbStep(t))
    /\ WF_vars(SyncNext)
    /\ WF_vars(AsyncSubmit \/ AsyncPoll \/ AsyncResume \/ AsyncGetResult)

\* ======================================================= pipeline claims

\* the first n bytes of the captured stream, in order
StreamPrefix(n) == [i \in 1..n |-> i]

\* C1: the bytes released to the render hardware are exactly the bytes the
\* render step has committed as consumed from the ring buffer, in capture
\* order with no gaps (no chunk is ever dropped here: a chunk that does not
\* fit stays queued in the hardware). Between ReleaseBuffer and commit_all
\* the two differ by the chunk in flight, so the statement is about every
\* other position of the render thread.
C1_RenderedIsConsumedStream ==
    renPc # "commit" => hwOut = StreamPrefix(totalRead)

\* C3: with A frames requested and F bytes observed in the ring buffer, the
\* render step copies exactly min(A x block alignment, F) bytes and releases
\* that many bytes divided by the block alignment.
C3_CopiesMinOfRoomAndFilled ==
    renPc = "release" =>
        /\ Len(data) = Min(available * BlockAlign, slots)
        /\ ReleaseFrames = Min(available * BlockAlign, slots) \div BlockAlign

\* C4: ring buffer accounting under every interleaving of the two threads:
\* 0 <= filled <= capacity, filled + free = capacity, bytes written = bytes
\* read + bytes resident, a reserved write never exceeds the free space and
\* a granted read never exceeds the filled space.
C4_RingAccounting ==
    /\ Filled >= 0
    /\ Filled <= Capacity
    /\ Free >= 0
    /\ Filled + Free = Capacity
    /\ totalWritten = totalRead + Filled
    /\ (capPc = "fill" => Len(rbuf) <= Free)
    /\ (renPc \in {"release", "commit"} => can_write <= Filled)

\* C4 witness: the buffer has wrapped, a write has been refused for lack of
\* room while bytes were resident, and reads have been committed.
C4_Witness ==
    /\ capPc = "release0"
    /\ totalRead > 0
    /\ Filled > 0
    /\ totalWritten > Capacity

\* C2: a chunk that does not fit is dropped and the capture thread gets past
\* it (to the next-packet query or back to its wait) by its own steps alone.
C2_DropIsLeftBehind ==
    (capPc = "release0")
        ~> (capPc \in {"nextpkt", "wait", "panicked"} \/ procState = "exited")

\* C5: once either thread has failed, the process ends.
C5_FailureEndsProcess ==
    (capPc = "panicked" \/ renPc = "panicked") ~> (procState = "exited")

\* C10: a thread parked at its wait gets past it even if the hardware never
\* signals the event again.
C10_WaitIsBounded ==
    /\ (renPc = "wait") ~> (renPc # "wait" \/ procState = "exited")
    /\ (capPc = "wait") ~> (capPc # "wait" \/ procState = "exited")

\* ===================================================== activation claims

\* C6: the parameter block stays alive from submission until the pending
\* operation's get-result has been called.
C6_ParamsOutliveOperation ==
    (opState \in {"pending", "completed"} /\ ~getResultCalled) => paramsAlive

\* the safety half of C7
C7_Safe ==
    /\ \A t \in Callbacks : cbPc[t] = "done" => cbRet[t] = "Ok"
    /\ mutex # 0 => cbPc[mutex] = "locked"
    /\ dropEarly =>
          /\ \A t \in Callbacks : cbPc[t] = "done" => slot = "None"
          /\ wakeCount = 0
          /\ futState = "empty"

\* C7: with the awaiting caller dropped before the platform calls back, an
\* ActivateCompleted invocation still runs to its end and returns Ok: the
\* value is discarded (nobody is woken, nothing is stored), the mutex is
\* held only for the take, and the slot is left empty.
C7_AbandonedCallbackCompletes ==
    /\ [](actMode = "async" => C7_Safe)
    /\ \A t \in Callbacks :
          (dropEarly /\ cbPc[t] = "lock") ~> (cbPc[t] = "done")

\* C7 witness: the future was dropped while the operation was pending, and
\* an invocation that found the handle in the slot has finished.
C7_Witness ==
    /\ dropEarly
    /\ opState = "completed"
    /\ \E t \in Callbacks : cbPc[t] = "done" /\ took[t] = "Some"

\* the invocations that took the handle out of the slot
Takers == {t \in Callbacks : took[t] = "Some"}

\* C8: however many ActivateCompleted invocations run and however they
\* interleave, exactly one takes the handle out of the slot, complete() is
\* called at most once (by that one), every other invocation finds None and
\* delivers nothing, all return Ok, and the waiter is woken at most once.
C8_AtMostOnceCompletion ==
    actMode = "async" =>
        /\ Cardinality(Takers) <= 1
        /\ (\E t \in Callbacks : took[t] # "nothing") => Cardinality(Takers) = 1
        /\ completeCalls <= 1
        /\ completeCalls =
              Cardinality({t \in Takers : cbPc[t] = "done"})
        /\ wakeCount <= 1
        /\ \A t \in Callbacks : cbPc[t] = "done" => cbRet[t] = "Ok"

\* C8 witness: two invocations have finished, one with the handle and one
\* with None, and the suspended waiter has been woken.
C8_Witness ==
    /\ actMode = "async"
    /\ \A t \in Callbacks : cbPc[t] = "done"
    /\ \E t \in Callbacks : took[t] = "None"
    /\ wakeCount = 1

\* the platform's report has reached activate_sync: the operation completed
\* and GetActivateResult has returned it
Reported ==
    /\ opState = "completed"
    /\ getResultCalled
    /\ failedCall \notin {"CreateEventW", "ActivateAudioInterfaceAsync",
                          "GetActivateResult"}

ReportedSuccess == Reported /\ Succeeded(report.hr) /\ report.ai = "Some"

ReportedFailure == Reported /\ ~Succeeded(report.hr)

SyncReturned == actMode = "sync" /\ actPc = "returned"

\* C9: activate_sync returns a handle if and only if the platform reported
\* a success status with a handle, and otherwise an error carrying a failure
\* status code (the reported one when a failure was reported): never Ok on
\* a reported failure, never an error that carries a success code.
C9_ReturnsReportedOutcome ==
    SyncReturned =>
        /\ ret.kind = "Ok" <=> ReportedSuccess
        /\ ret.kind # "Ok" => (ret.kind = "Error" /\ ~Succeeded(ret.code))
        /\ ReportedFailure /\ failedCall = "none" => ret.code = report.hr

\* ================================================ pipeline claims, part 2

\* C11: the producer and the consumer role of the ring buffer are exercised
\* one after the other: a write (a chunk reserved by write_chunk_uninit and
\* not yet committed) and a read (a chunk granted by read_chunk and not yet
\* committed) are never in progress at the same time.
C11_WriteAndReadNeverOverlap ==
    ~(capPc = "fill" /\ renPc \in {"release", "commit"} /\ can_write > 0)

\* C12: the frames released to the render hardware are whole frames, at most
\* the frames requested (buffer capacity minus padding), and released frames
\* x block alignment exceeds neither the bytes copied into the hardware
\* buffer nor the requested region; so the hardware never holds more than
\* its capacity and has only ever been given whole frames.
C12_ReleaseWithinCopiedAndRequested ==
    /\ renPc = "release" =>
          /\ ReleaseFrames <= available
          /\ ReleaseFrames * BlockAlign <= Len(data)
          /\ ReleaseFrames * BlockAlign <= available * BlockAlign
          /\ Len(ReleasedBytes(data)) = ReleaseFrames * BlockAlign
    /\ padding <= HwBufFrames
    /\ Len(hwOut) % BlockAlign = 0

\* C12 witness: a release of fewer frames than were requested, because the
\* ring buffer held less than the requested region.
C12_Witness ==
    /\ renPc = "release"
    /\ ReleaseFrames > 0
    /\ Len(data) < available * BlockAlign

\* C13: a chunk refused for lack of room is dropped entirely: once the
\* chunk that starts at position n of the captured stream has been released
\* with 0 frames, no chunk starting at that position is written to the ring
\* buffer afterwards.
C13_RefusedChunkNeverWritten ==
    \A n \in 0..MaxBytes :
        []((capPc = "release0" /\ capHwRead = n)
              => [](capPc = "fill" => capHwRead # n))

\* the capture step on TooFewSlots itself: neither the refused reservation
\* nor ReleaseBuffer(0) changes the ring buffer's storage or its tail, and
\* the hardware queue keeps the packet
C13_RefusalLeavesRingAlone ==
    [][(capPc \in {"reserve", "release0"}
            /\ capPc' \in {"release0", "getbuf"})
          => UNCHANGED <<buf, tail, totalWritten, capQueue, capHwRead>>]_vars

\* C14: a render step that finds the hardware padding equal to the hardware
\* buffer capacity goes back to the wait and changes nothing else: no
\* hardware buffer is requested, nothing is released, nothing is read or
\* committed; and the rest of a render step is only ever run with room.
C14_FullHardwareStepIsNoOp ==
    /\ [][(/\ renPc = "padding"
            /\ renPc' \notin {"padding", "panicked"}
            /\ padding = HwBufFrames)
              => /\ renPc' = "wait"
                 /\ available' = 0
                 /\ UNCHANGED <<ring, renHw, slots, frames, can_write, data,
                                capHw,
                                capLocals, capPc, procState>>]_vars
    /\ [](renPc \in {"getbuf", "slots", "read", "release", "commit"}
              => available > 0)

\* C14 witness: after frames have been rendered, a render step has found the
\* hardware full and gone back to the wait.
C14_Witness ==
    /\ renPc = "wait"
    /\ available = 0
    /\ padding = HwBufFrames
    /\ totalRead > 0

\* C15: the render loop stops draining when the ring buffer is empty: a
\* render step that found nothing to read while the hardware had room is
\* followed by the return to the wait, unless data has arrived meanwhile.
C15_EmptyRingEndsDraining ==
    (renPc = "commit" /\ can_write = 0 /\ available > 0)
        ~> (renPc \in {"wait", "panicked"} \/ Filled > 0
               \/ procState = "exited")

\* ====================================================== stream initializer
\* init_ac(ac, mfx) of main.rs. WAVEFORMATEX values are records of the
\* fields of the structure.

\* the format init_ac builds when GetMixFormat fails (main.rs 210-218);
\* wFormatTag 3 is WAVE_FORMAT_IEEE_FLOAT
DefaultFormat ==
    [wFormatTag |-> 3, nChannels |-> 2, nSamplesPerSec |-> 48000,
     nAvgBytesPerSec |-> 384000, nBlockAlign |-> 8, wBitsPerSample |-> 32,
     cbSize |-> 22]

\* a format a caller passes as mfx (main passes the output's mix format)
SuppliedFormats ==
    {[wFormatTag |-> 1, nChannels |-> 2, nSamplesPerSec |-> 44100,
      nAvgBytesPerSec |-> 176400, nBlockAlign |-> 4, wBitsPerSample |-> 16,
      cbSize |-> 0]}

\* what ac.GetMixFormat() can return: a format of the endpoint, or an error
MixFormats ==
    {[wFormatTag |-> 3, nChannels |-> 6, nSamplesPerSec |-> 48000,
      nAvgBytesPerSec |-> 1152000, nBlockAlign |-> 24, wBitsPerSample |-> 32,
      cbSize |-> 22]}

\* minimum engine periods GetSharedModeEnginePeriod can report, in frames
EnginePeriods == {128, 480}

\* buffer capacities GetBufferSize can report, in frames
BufferSizes == {448, 1056}

\* the clients main calls init_ac with: the render device and the capture
\* device were activated as IAudioClient3; the process-loopback client
\* comes from the activation bridge as a plain IAudioClient
ClientSources == {"render", "captureDevice", "processLoopback"}

\* main passes Some(wfx) for the capture side and None for the render side
MfxOf(source) ==
    IF source = "render" THEN {<<>>} ELSE {<<f>> : f \in SuppliedFormats}

\* what ac.GetMixFormat() returns
MixOutcomes == {<<>>} \cup {<<f>> : f \in MixFormats}

\* ac.cast::<IAudioClient3>(): a client activated as IAudioClient3 answers
\* the query for it; the process-loopback client may or may not
CastOutcomes(source) ==
    IF source = "processLoopback" THEN BOOLEAN ELSE {TRUE}

\* variant of SelectFormat: the mix format wins over the caller's format
SelectFormat_MixFirst(mfx, mix) ==
    IF mix # <<>> THEN mix[1] ELSE IF mfx # <<>> THEN mfx[1] ELSE DefaultFormat

\* mfx.unwrap_or(ac.GetMixFormat().unwrap_or_else(|_| default))
SelectFormat(mfx, mix) ==
    IF mfx # <<>> THEN mfx[1] ELSE IF mix # <<>> THEN mix[1] ELSE DefaultFormat

\* Duration::from_millis(ms).as_nanos()
NanosOfMillis(ms) == ms * 1000000

\* to_reference_time: (d.as_nanos() / 100) as i64
ToReferenceTime(nanos) == nanos \div 100

\* init_ac is entered
InitInit ==
    /\ iSource \in ClientSources
    /\ iMfx \in MfxOf(iSource)
    /\ iMix = <<>>
    /\ iPc = "format"
    /\ iAc3 = FALSE
    /\ iWfx = NullFormat
    /\ iMinPeriod = 0
    /\ iInitCall = [api |-> "none"]
    /\ iBfs = 0
    /\ iCalls = <<>>
    /\ iRet = [kind |-> "none"]

iInputs == <<iSource, iMfx>>
offInit == <<pipeVars, actVars, latVars>>

\* a platform call of init_ac fails: `?` returns the error
InitFails(call) ==
    /\ iCalls' = Append(iCalls, call)
    /\ iRet' = [kind |-> "Err", call |-> call]
    /\ iPc' = "returned"

\* lines 203-224: the cast to IAudioClient3 (a failure leaves ac3 None) and
\* the choice of the format; GetMixFormat is called whether or not mfx is
\* given, and its failure is not an error
InitFormat ==
    /\ iPc = "format"
    /\ \E castOk \in CastOutcomes(iSource), mix \in MixOutcomes :
          /\ iAc3' = castOk
          /\ iMix' = mix
          /\ iWfx' = SelectFormat(iMfx, mix)
          /\ iPc' = IF castOk THEN "props" ELSE "fallback"
    /\ iCalls' = Append(iCalls, "GetMixFormat")
    /\ UNCHANGED <<offInit, iInputs, iMinPeriod, iInitCall, iBfs, iRet>>

\* lines 227-230: ac.SetClientProperties(&props)?
InitSetClientProperties ==
    /\ iPc = "props"
    /\ \/ /\ iPc' = "period"
          /\ iCalls' = Append(iCalls, "SetClientProperties")
          /\ UNCHANGED iRet
       \/ InitFails("SetClientProperties")
    /\ UNCHANGED <<offInit, iInputs, iMix, iAc3, iWfx, iMinPeriod, iInitCall,
                   iBfs>>

\* lines 232-243: ac.GetSharedModeEnginePeriod(wfx, ...)?
InitGetEnginePeriod ==
    /\ iPc = "period"
    /\ \/ /\ iMinPeriod' \in EnginePeriods
          /\ iPc' = "shared"
          /\ iCalls' = Append(iCalls, "GetSharedModeEnginePeriod")
          /\ UNCHANGED iRet
       \/ /\ InitFails("GetSharedModeEnginePeriod")
          /\ UNCHANGED iMinPeriod
    /\ UNCHANGED <<offInit, iInputs, iMix, iAc3, iWfx, iInitCall, iBfs>>

\* lines 251-257: ac.InitializeSharedAudioStream(EVENTCALLBACK, min_period,
\* wfx, None)?
InitSharedStream ==
    /\ iPc = "shared"
    /\ \/ /\ iInitCall' = [api |-> "InitializeSharedAudioStream",
                            mode |-> "SHARED",
                            flags |-> {"EVENTCALLBACK"},
                            period |-> iMinPeriod,
                            unit |-> "frames",
                            format |-> iWfx]
          /\ iPc' = "bufsize"
          /\ iCalls' = Append(iCalls, "Initialize")
          /\ UNCHANGED iRet
       \/ /\ InitFails("Initialize")
          /\ UNCHANGED iInitCall
    /\ UNCHANGED <<offInit, iInputs, iMix, iAc3, iWfx, iMinPeriod, iBfs>>

\* lines 258-269: ac.Initialize(SHARED, LOOPBACK | EVENTCALLBACK,
\* to_reference_time(Duration::from_millis(2)), 0, wfx, None)?; 10
InitFallback ==
    /\ iPc = "fallback"
    /\ \/ /\ iInitCall' = [api |-> "Initialize",
                            mode |-> "SHARED",
                            flags |-> {"LOOPBACK", "EVENTCALLBACK"},
                            period |-> ToReferenceTime(NanosOfMillis(2)),
                            periodicity |-> 0,
                            unit |-> "hns",
                            format |-> iWfx]
          /\ iMinPeriod' = 10
          /\ iPc' = "bufsize"
          /\ iCalls' = Append(iCalls, "Initialize")
          /\ UNCHANGED iRet
       \/ /\ InitFails("Initialize")
          /\ UNCHANGED <<iInitCall, iMinPeriod>>
    /\ UNCHANGED <<offInit, iInputs, iMix, iAc3, iWfx, iBfs>>

\* variant of InitGetBufferSize that goes on to Start, past the event
InitGetBufferSize_SkipsEvent ==
    /\ iPc = "bufsize"
    /\ \/ /\ iBfs' \in BufferSizes
          /\ iPc' = "start"
          /\ iCalls' = Append(iCalls, "GetBufferSize")
          /\ UNCHANGED iRet
       \/ /\ InitFails("GetBufferSize")
          /\ UNCHANGED iBfs
    /\ UNCHANGED <<offInit, iInputs, iMix, iAc3, iWfx, iMinPeriod, iInitCall>>

\* line 271: ac.GetBufferSize()?
InitGetBufferSize ==
    /\ iPc = "bufsize"
    /\ \/ /\ iBfs' \in BufferSizes
          /\ iPc' = "event"
          /\ iCalls' = Append(iCalls, "GetBufferSize")
          /\ UNCHANGED iRet
       \/ /\ InitFails("GetBufferSize")
          /\ UNCHANGED iBfs
    /\ UNCHANGED <<offInit, iInputs, iMix, iAc3, iWfx, iMinPeriod, iInitCall>>

\* line 274: CreateEventW(None, false, false, None)?
InitCreateEvent ==
    /\ iPc = "event"
    /\ \/ /\ iPc' = "setevent"
          /\ iCalls' = Append(iCalls, "CreateEventW")
          /\ UNCHANGED iRet
       \/ InitFails("CreateEventW")
    /\ UNCHANGED <<offInit, iInputs, iMix, iAc3, iWfx, iMinPeriod, iInitCall,
                   iBfs>>

\* line 275: ac.SetEventHandle(ev)?
InitSetEventHandle ==
    /\ iPc = "setevent"
    /\ \/ /\ iPc' = "start"
          /\ iCalls' = Append(iCalls, "SetEventHandle")
          /\ UNCHANGED iRet
       \/ InitFails("SetEventHandle")
    /\ UNCHANGED <<offInit, iInputs, iMix, iAc3, iWfx, iMinPeriod, iInitCall,
                   iBfs>>

\* lines 276-284: ac.Start()?; Ok(InitInfo { block, buf_size, ev,
\* min_period, wfx })
InitStart ==
    /\ iPc = "start"
    /\ \/ /\ iRet' = [kind |-> "Ok",
                       block |-> iWfx.nBlockAlign,
                       buf_size |-> iBfs,
                       min_period |-> iMinPeriod,
                       wfx |-> iWfx]
          /\ iPc' = "returned"
          /\ iCalls' = Append(iCalls, "Start")
       \/ InitFails("Start")
    /\ UNCHANGED <<offInit, iInputs, iMix, iAc3, iWfx, iMinPeriod, iInitCall,
                   iBfs>>

InitNext ==
    \/ InitFormat
    \/ InitSetClientProperties
    \/ InitGetEnginePeriod
    \/ InitSharedStream
    \/ InitFallback
    \/ InitGetBufferSize
    \/ InitCreateEvent
    \/ InitSetEventHandle
    \/ InitStart

\* one call of init_ac, looked at on its own
InitEntry == InitInit /\ PipeOff /\ ActOff /\ LatOff

InitSpec == InitEntry /\ [][InitNext]_vars

\* ================================================ stream initializer claims

\* C16: the negotiated format is the caller's format when one is supplied,
\* otherwise the endpoint's mix format, otherwise (the mix-format query
\* failed) the hardcoded default: IEEE float, 32 bits per sample, 2
\* channels, 48000 Hz, block alignment 8, 384000 bytes per second. A failed
\* mix-format query never fails the initialization, the endpoint is
\* initialized with the negotiated format, and the block alignment returned
\* is the negotiated format's.
C16_FormatSelection ==
    iPc \notin {"off", "format"} =>
        /\ iMfx # <<>> => iWfx = iMfx[1]
        /\ (iMfx = <<>> /\ iMix # <<>>) => iWfx = iMix[1]
        /\ (iMfx = <<>> /\ iMix = <<>>) =>
              /\ iWfx.wFormatTag = 3
              /\ iWfx.wBitsPerSample = 32
              /\ iWfx.nChannels = 2
              /\ iWfx.nSamplesPerSec = 48000
              /\ iWfx.nBlockAlign = 8
              /\ iWfx.nAvgBytesPerSec = 384000
        /\ iRet.kind = "Err" => iRet.call # "GetMixFormat"
        /\ iInitCall.api # "none" => iInitCall.format = iWfx
        /\ iRet.kind = "Ok" =>
              /\ iRet.wfx = iWfx
              /\ iRet.block = iWfx.nBlockAlign

\* C16 witness: init_ac has returned Ok with no format supplied and the
\* mix-format query failed.
C16_Witness ==
    /\ iRet.kind = "Ok"
    /\ iMfx = <<>>
    /\ iMix = <<>>
    /\ iRet.block = 8

\* C17: on the fallback path (no IAudioClient3) the endpoint is initialized
\* in shared mode, event-driven, with the fixed 10 ms period, with the
\* loopback flag exactly when it is a capture endpoint, and the period
\* init_ac returns is the period it requested.
C17_FallbackPeriodAndFlags ==
    (iInitCall.api = "Initialize") =>
        /\ iInitCall.mode = "SHARED"
        /\ "EVENTCALLBACK" \in iInitCall.flags
        /\ ("LOOPBACK" \in iInitCall.flags) <=> (iSource # "render")
        /\ iInitCall.period = ToReferenceTime(NanosOfMillis(10))
        /\ iRet.kind = "Ok" =>
              ToReferenceTime(NanosOfMillis(iRet.min_period))
                  = iInitCall.period

\* ============================================ activation claims, part 2

AsyncReturned == actMode = "async" /\ actPc = "returned"

\* a platform call of the async variant failed, or the platform reported a
\* failed activation
PlatformFailure ==
    \/ failedCall \in {"ActivateAudioInterfaceAsync", "GetActivateResult",
                       "cast"}
    \/ getResultCalled /\ failedCall = "none" /\ ~Succeeded(report.hr)

\* the error classes of a return of the async variant are told apart: a
\* platform failure is a WindowError with its failure code, and nothing else
\* is
C18_VariantsNeverConfused ==
    AsyncReturned =>
        /\ ret.kind \in {"Ok", "WindowError", "HandleError"}
        /\ ret.kind = "WindowError" <=> PlatformFailure
        /\ ret.kind = "HandleError" <=> futState = "error"
        /\ ret.kind = "WindowError" => ~Succeeded(ret.code)
        /\ (ret.kind = "WindowError" /\ failedCall = "none")
              => ret.code = report.hr

\* C18: the async variant reports a platform failure (submission rejected,
\* get-result failed, activation status not a success) as the WindowError
\* variant carrying the failure code and a failure of the completion
\* primitive as the HandleError variant, never one as the other; and when
\* the completion handle has been dropped without being completed, the
\* awaiting caller resumes with the handle error instead of waiting forever.
C18_ErrorVariantsDistinct ==
    /\ []C18_VariantsNeverConfused
    /\ (actMode = "async" /\ futState = "error"
            /\ actPc \in {"await", "suspended"})
          ~> \/ actPc = "dropped"
             \/ actPc = "returned" /\ ret.kind = "HandleError"

\* ======================================================= latency diagnostic
\* the computation of main.rs 169-172 on its own, over filled counts up to
\* the program's ring buffer capacity and over block alignments and sample
\* rates of real formats

\* filled byte counts (the program's ring buffer holds 48000 * 2 bytes)
LatencySlots == {0, 1, 7, 8, 383, 384, 385, 767, 48000, 95999, 96000}

\* block alignments
LatencyBlocks == {1, 2, 3, 4, 6, 8, 24}

\* sample rates
LatencyRates == {1, 7, 8000, 44100, 48000, 192000}

LatencyInit ==
    /\ latSlots \in LatencySlots
    /\ latBlock \in LatencyBlocks
    /\ latRate \in LatencyRates
    /\ latFrames = -1

\* let frames = slots * 1000 / info.block as usize / nSamplesPerSec as usize
LatencyCompute ==
    /\ latFrames = -1
    /\ latFrames' = Latency(latSlots, latBlock, latRate)
    /\ UNCHANGED <<pipeVars, actVars, initVars, latSlots, latBlock, latRate>>

LatencyEntry == LatencyInit /\ PipeOff /\ ActOff /\ InitOff

LatencySpec == LatencyEntry /\ [][LatencyCompute]_vars

\* C19: the latency printed is floor(filled x 1000 / (block alignment x
\* samples per second)), the product filled x 1000 stays within 32 bits,
\* and the render step prints that value for what it observed.
C19_LatencyIsExactFloor ==
    /\ latFrames # -1 =>
          /\ latFrames = (latSlots * 1000) \div (latBlock * latRate)
          /\ latSlots * 1000 <= 2147483647
    /\ renPc \in {"read", "release", "commit"} =>
          frames = (slots * 1000) \div (BlockAlign * SamplesPerSec)

\* C19 witness: the full ring buffer at 8 bytes per frame and 48000 Hz is
\* 250 ms.
C19_Witness ==
    /\ latSlots = 96000
    /\ latBlock = 8
    /\ latRate = 48000
    /\ latFrames = 250

\* the platform's completion callback has fired: the platform has invoked
\* ActivateCompleted
CallbackFired == \E t \in Callbacks : cbPc[t] # "idle"

InitOrder == <<"Initialize", "GetBufferSize", "SetEventHandle", "Start">>

IsInitStep(c) == c \in {InitOrder[i] : i \in 1..Len(InitOrder)}

\* the calls made so far that are among the four steps
InitStepsMade == SelectSeq(iCalls, IsInitStep)

\* C21: init_ac initializes the endpoint, reads back the buffer capacity,
\* binds the event handle and starts the stream, in that order, each at most
\* once; Start is never called before SetEventHandle has succeeded; a
\* return of Ok implies Start was the last call and succeeded; and a call
\* that fails is the last call made.
C21_InitStepsInOrder ==
    /\ [](/\ Len(InitStepsMade) <= Len(InitOrder)
          /\ InitStepsMade = SubSeq(InitOrder, 1, Len(InitStepsMade))
          /\ iPc = "start" => InitStepsMade = SubSeq(InitOrder, 1, 3)
          /\ iRet.kind = "Ok" =>
                /\ InitStepsMade = InitOrder
                /\ iCalls[Len(iCalls)] = "Start"
          /\ iRet.kind = "Err" =>
                /\ iPc = "returned"
                /\ iCalls[Len(iCalls)] = iRet.call)
    /\ [][iRet.kind # "none" => UNCHANGED <<iCalls, iRet, iPc>>]_vars

\* C21 witness: init_ac has returned Ok on the low-latency path after all
\* its calls.
C21_Witness ==
    /\ iRet.kind = "Ok"
    /\ iAc3
    /\ Len(iCalls) = 8

\* ================================================ pipeline claims, part 3

\* C22: a retrieve that returns a null data pointer ends the capture step
\* for that cycle: nothing is written to the ring buffer and the thread
\* goes back to its wait, so that the next retrieve follows the next wake.
C22_NullPointerEndsCycle ==
    [][(capPc = "isnull" /\ capPc' # "isnull")
          => /\ capPc' = "wait"
             /\ UNCHANGED <<buf, tail, totalWritten>>]_vars

\* C23: read_chunk(can_write) of the render thread never fails for lack of
\* data, whatever the capture thread does between the observation of the
\* filled count and the read: the bytes asked for are resident, and the
\* read step never ends the render thread.
C23_ReadChunkNeverFails ==
    /\ [](renPc = "read" =>
            /\ can_write <= slots
            /\ slots <= Filled
            /\ ReadChunkOk(can_write))
    /\ [][renPc = "read" => renPc' # "panicked"]_vars

\* C23 witness: the render thread is about to read bytes while the capture
\* thread has committed more since the filled count was observed.
C23_Witness ==
    /\ renPc = "read"
    /\ can_write > 0
    /\ Filled > slots

====
